---- MODULE Spec2Model ----
(***************************************************************************)
(* Household Inventory Manager (src/app_haminku.py).                       *)
(*                                                                         *)
(* Several browser sessions share one Google Sheet (the authoritative      *)
(* store).  Each session keeps its own st.session_state.inventory_df (the  *)
(* mirror), loaded once through the process-wide st.cache_data cache, and  *)
(* every conn.update writes the session's whole mirror to the sheet.       *)
(*                                                                         *)
(* A step of the model is one access to shared state (conn.read,           *)
(* conn.update, a cache lookup or st.cache_data.clear()) together with the *)
(* session-local code that runs before the session's next such access;     *)
(* sessions interleave at these accesses.                                  *)
(***************************************************************************)
EXTENDS Integers, Sequences, FiniteSets

VARIABLES
    store,    \* the rows of worksheet "Inv", the authoritative store
    cache,    \* the st.cache_data entry of get_data_from_gsheets
    mirror,   \* per session: st.session_state.inventory_df
    pc,       \* per session: "start" (no page load yet), "idle" (page shown),
              \* "write" (verified, update_function about to run),
              \* "clear" (conn.update returned, st.cache_data.clear()
              \* about to run),
              \* "rerun" (handler returned, st.rerun() about to run)
    op,       \* per session: the arguments and locals of the call in progress
              \* (ev: expected_version, cur: current_version, was: the
              \* quantity shown, qty: new_quantity, notes: new_notes)
    outcome,  \* per session: what the call in progress has reported
    used,     \* history: the <<name, expectedVersion>> pairs with which a
              \* mutation has succeeded since the name was last added
    pending,  \* history, per session: a mutation has succeeded since the
              \* session's last display read
    calls,    \* history: the number of handler calls started
    limit     \* the number of handler calls the run may start

vars == <<store, cache, mirror, pc, op, outcome, used, pending, calls, limit>>

---------------------------------------------------------------------------
(* Bounds of the model: rows of a data frame, versions and quantities the
   buttons may reach, and handler calls in a run *)

MaxRows == 2
MaxVersion == 4
MaxQty == 1
MaxCalls == 2

(* Program constants *)

LOW_STOCK_THRESHOLD == 1

(* A blank Version cell of the sheet (pandas NaN). *)
NaN == -1

Sessions == {"s1", "s2"}
Names == {"a", "b"}

(* Inputs of the forms: the Add form's image, quantity and notes, and the
   text saved by a notes form *)
Images == {""}
AddQuantities == {1}
AddNotes == {""}
EditNotes == {"n"}

(* datetime.now() as month/day/year: the day of the run, and an earlier day
   for the rows the sheet starts with *)
OldDate == "old"
Today == "now"

---------------------------------------------------------------------------
(* Rows and data frames *)

Row(image, name, quantity, notes, date, version) ==
    [Image |-> image, Name |-> name, Quantity |-> quantity,
     Notes |-> notes, Date |-> date, Version |-> version]

(* A name that stands for "no value yet" in op *)
NoOp == [kind |-> "none", name |-> "", ev |-> 0, cur |-> 0, was |-> 0, qty |-> 0,
         notes |-> ""]

(* A data frame, or Python's None *)
Frame(rows) == [none |-> FALSE, rows |-> rows]
NoneFrame == [none |-> TRUE, rows |-> <<>>]

(* data[data['Name'] == item_name] *)
RowsNamed(rows, name) == SelectSeq(rows, LAMBDA r : r.Name = name)

(* data['Version'].fillna(1).astype(int) *)
FillVersion(rows) ==
    [i \in DOMAIN rows |->
        [rows[i] EXCEPT !.Version = IF @ = NaN THEN 1 ELSE @]]

(* get_data_from_gsheets, the body run on a cache miss with a read that
   succeeds: rows always carry a Name, so dropna(how='all') drops none. *)
ReadData(rows) == Frame(FillVersion(rows))

(* A variant of GetItem that answers from the cached frame, not the sheet *)
GetItemCached(rows, name) == RowsNamed(cache.frame.rows, name)

(* A variant of GetItem that forgets the filter on the name *)
GetItemUnfiltered(rows, name) == rows

(* _get_item_from_gsheets: uncached read, rows with the name *)
GetItem(rows, name) == RowsNamed(rows, name)

(* A variant of QuantityLogic that forgets the assignment of 'Version' *)
QuantityLogicKeepVersion(rows, name, qty, new_version) ==
    [i \in DOMAIN rows |->
        IF rows[i].Name = name
        THEN [rows[i] EXCEPT !.Quantity = qty, !.Date = Today]
        ELSE rows[i]]

(* df.loc[df['Name'] == item_name, column] = value, for the three columns
   update_gsheet_quantity_and_date.update_logic assigns *)
QuantityLogic(rows, name, qty, new_version) ==
    [i \in DOMAIN rows |->
        IF rows[i].Name = name
        THEN [rows[i] EXCEPT !.Quantity = qty, !.Date = Today,
                             !.Version = new_version]
        ELSE rows[i]]

(* update_notes_in_gsheet.update_logic *)
NotesLogic(rows, name, notes, new_version) ==
    [i \in DOMAIN rows |->
        IF rows[i].Name = name
        THEN [rows[i] EXCEPT !.Notes = notes, !.Version = new_version]
        ELSE rows[i]]

(* A variant of DeleteLogic that does not assign the result of drop *)
DeleteLogicUnassigned(rows, name) == rows

(* delete_item_from_gsheet.delete_logic: drop the rows with the name *)
DeleteLogic(rows, name) == SelectSeq(rows, LAMBDA r : r.Name # name)

(* A variant of NewRow that starts the version at 0 *)
NewRowVersionZero(image, name, quantity, notes) ==
    Row(image, name, quantity, notes, Today, 0)

(* add_new_item_to_gsheet: the new row *)
NewRow(image, name, quantity, notes) ==
    Row(image, name, quantity, notes, Today, 1)

(* pd.concat([inventory_df, new_row_df], ignore_index=True); concat drops a
   None operand *)
Concat(frame, row) ==
    Frame((IF frame.none THEN <<>> ELSE frame.rows) \o <<row>>)

(* update_function(current_version + 1) applied to the session's mirror *)
ApplyLogic(rows, o) ==
    CASE o.kind = "qty"   -> QuantityLogic(rows, o.name, o.qty, o.cur + 1)
      [] o.kind = "notes" -> NotesLogic(rows, o.name, o.notes, o.cur + 1)
      [] o.kind = "del"   -> DeleteLogic(rows, o.name)

(* display_inventory_items: the quantity a Decrease / Increase button sends *)
Max(x, y) == IF x >= y THEN x ELSE y

(* A variant of Decrease without the clamp at 0 *)
DecreaseUnclamped(quantity) == quantity - 1

Decrease(quantity) == Max(0, quantity - 1)
Increase(quantity) == quantity + 1

---------------------------------------------------------------------------
(* Initial sheets: at most one row per name, versions possibly blank *)

InitStores ==
    { <<>>,
      <<Row("", "a", 0, "", OldDate, NaN)>>,
      <<Row("", "a", 1, "", OldDate, 3)>>,
      <<Row("", "a", 1, "", OldDate, 1), Row("", "b", 1, "", OldDate, 1)>> }

Start ==
    /\ store \in InitStores
    /\ cache = [valid |-> FALSE, frame |-> NoneFrame]
    /\ mirror = [s \in Sessions |-> NoneFrame]
    /\ pc = [s \in Sessions |-> "start"]
    /\ op = [s \in Sessions |-> NoOp]
    /\ outcome = [s \in Sessions |-> "none"]
    /\ used = {}
    /\ pending = [s \in Sessions |-> FALSE]
    /\ calls = 0

(* Runs of at most MaxCalls handler calls, and runs of one call more *)
Init == Start /\ limit = MaxCalls
InitLong == Start /\ limit = MaxCalls + 1

(* Runs of at most MaxCalls handler calls on a sheet that starts with one
   record (rows are added by the runs) *)
InitLive == Init /\ Len(store) = 1

---------------------------------------------------------------------------
(* main(), first run of a session: "inventory_df" not in st.session_state *)

(* get_data_from_gsheets answered by st.cache_data *)
LoadCached(s) ==
    /\ pc[s] = "start"
    /\ cache.valid
    /\ mirror' = [mirror EXCEPT ![s] = cache.frame]
    /\ pc' = [pc EXCEPT ![s] = "idle"]
    /\ pending' = [pending EXCEPT ![s] = FALSE]
    /\ UNCHANGED <<store, cache, op, outcome, used, calls, limit>>

(* cache miss, conn.read succeeds *)
LoadRead(s) ==
    /\ pc[s] = "start"
    /\ ~cache.valid
    /\ cache' = [valid |-> TRUE, frame |-> ReadData(store)]
    /\ mirror' = [mirror EXCEPT ![s] = ReadData(store)]
    /\ pc' = [pc EXCEPT ![s] = "idle"]
    /\ pending' = [pending EXCEPT ![s] = FALSE]
    /\ UNCHANGED <<store, op, outcome, used, calls, limit>>

(* cache miss, conn.read raises: the function returns None, which is cached *)
LoadReadFail(s) ==
    /\ pc[s] = "start"
    /\ ~cache.valid
    /\ cache' = [valid |-> TRUE, frame |-> NoneFrame]
    /\ mirror' = [mirror EXCEPT ![s] = NoneFrame]
    /\ pc' = [pc EXCEPT ![s] = "idle"]
    /\ pending' = [pending EXCEPT ![s] = FALSE]
    /\ UNCHANGED <<store, op, outcome, used, calls, limit>>

(* @st.cache_data(ttl=600): the entry expires *)
ExpireCache ==
    /\ cache.valid
    /\ cache' = [valid |-> FALSE, frame |-> NoneFrame]
    /\ UNCHANGED <<store, mirror, pc, op, outcome, used, pending, calls, limit>>

---------------------------------------------------------------------------
(* display_inventory_items: a button of row i of the session's mirror *)

Kinds == {"dec", "inc", "del", "notes"}

(* The call the button makes: the name and version come from the row shown *)
Click(s, i, kind, notes) ==
    LET row == mirror[s].rows[i] IN
    [kind  |-> IF kind \in {"dec", "inc"} THEN "qty" ELSE kind,
     name  |-> row.Name,
     ev    |-> row.Version,
     cur   |-> 0,
     was   |-> row.Quantity,
     qty   |-> CASE kind = "dec" -> Decrease(row.Quantity)
                 [] kind = "inc" -> Increase(row.Quantity)
                 [] OTHER -> row.Quantity,
     notes |-> IF kind = "notes" THEN notes ELSE row.Notes]

(* main(): the rows of the two columns, low stock and normal stock *)
Shown(row) ==
    \/ row.Quantity <= LOW_STOCK_THRESHOLD
    \/ row.Quantity > LOW_STOCK_THRESHOLD

CanClick(s, i, kind) ==
    /\ pc[s] = "idle"
    /\ calls < limit
    /\ ~mirror[s].none
    /\ i \in DOMAIN mirror[s].rows
    /\ Shown(mirror[s].rows[i])
    /\ kind = "inc" => mirror[s].rows[i].Quantity < MaxQty
    /\ kind # "del" => mirror[s].rows[i].Version < MaxVersion

(* A variant of VersionMatches that only rejects a version from the future *)
VersionAtLeast(current_version, expected_version) ==
    current_version >= expected_version

(* current_version != expected_version, negated: the update may proceed *)
VersionMatches(current_version, expected_version) ==
    current_version = expected_version

(* A variant of Rejected that goes on to the write after reporting `result` *)
RejectedThenWrites(s, o, result) ==
    /\ op' = [op EXCEPT ![s] = o]
    /\ outcome' = [outcome EXCEPT ![s] = result]
    /\ pc' = [pc EXCEPT ![s] = "write"]
    /\ pending' = [pending EXCEPT ![s] = FALSE]
    /\ calls' = calls + 1
    /\ UNCHANGED limit
    /\ UNCHANGED <<store, cache, mirror, used>>

(* A verification step that ends the call with `result` *)
Rejected(s, o, result) ==
    /\ op' = [op EXCEPT ![s] = o]
    /\ outcome' = [outcome EXCEPT ![s] = result]
    /\ pc' = [pc EXCEPT ![s] = "rerun"]
    /\ pending' = [pending EXCEPT ![s] = FALSE]
    /\ calls' = calls + 1
    /\ UNCHANGED limit
    /\ UNCHANGED <<store, cache, mirror, used>>

(* _perform_optimistic_update: conn.read raises *)
VerifyReadFail(s, i, kind, notes) ==
    /\ CanClick(s, i, kind)
    /\ Rejected(s, Click(s, i, kind, notes), "ReadError")

(* current_item.empty *)
VerifyNotFound(s, i, kind, notes) ==
    /\ CanClick(s, i, kind)
    /\ LET o == Click(s, i, kind, notes) IN
        /\ GetItem(store, o.name) = <<>>
        /\ Rejected(s, o, "NotFound")

(* int(current_item['Version'].iloc[0]) raises on a blank cell *)
VerifyBadVersion(s, i, kind, notes) ==
    /\ CanClick(s, i, kind)
    /\ LET o == Click(s, i, kind, notes) IN
        /\ GetItem(store, o.name) # <<>>
        /\ GetItem(store, o.name)[1].Version = NaN
        /\ Rejected(s, o, "VersionError")

(* current_version != expected_version *)
VerifyConflict(s, i, kind, notes) ==
    /\ CanClick(s, i, kind)
    /\ LET o == Click(s, i, kind, notes) IN
        /\ GetItem(store, o.name) # <<>>
        /\ GetItem(store, o.name)[1].Version # NaN
        /\ ~VersionMatches(GetItem(store, o.name)[1].Version, o.ev)
        /\ Rejected(s, o, "Conflict")

(* versions match: update_function(current_version + 1) is about to run *)
VerifyPass(s, i, kind, notes) ==
    /\ CanClick(s, i, kind)
    /\ LET o == Click(s, i, kind, notes) IN
        /\ GetItem(store, o.name) # <<>>
        /\ GetItem(store, o.name)[1].Version # NaN
        /\ VersionMatches(GetItem(store, o.name)[1].Version, o.ev)
        /\ op' = [op EXCEPT ![s] = [o EXCEPT !.cur = GetItem(store, o.name)[1].Version]]
    /\ outcome' = [outcome EXCEPT ![s] = "none"]
    /\ pc' = [pc EXCEPT ![s] = "write"]
    /\ pending' = [pending EXCEPT ![s] = FALSE]
    /\ calls' = calls + 1
    /\ UNCHANGED limit
    /\ UNCHANGED <<store, cache, mirror, used>>

(* update_logic / delete_logic: the mirror is changed, conn.update succeeds,
   st.success; the cache is still as it was *)
WriteOk(s) ==
    /\ pc[s] = "write"
    /\ mirror' = [mirror EXCEPT ![s] = Frame(ApplyLogic(mirror[s].rows, op[s]))]
    /\ store' = mirror'[s].rows
    /\ outcome' = [outcome EXCEPT ![s] = "ok"]
    /\ pc' = [pc EXCEPT ![s] = "clear"]
    /\ used' = used \cup {<<op[s].name, op[s].ev>>}
    /\ pending' = [t \in Sessions |-> TRUE]
    /\ UNCHANGED <<cache, op, calls, limit>>

(* update_logic / delete_logic: the mirror is changed, conn.update raises *)
WriteFail(s) ==
    /\ pc[s] = "write"
    /\ mirror' = [mirror EXCEPT ![s] = Frame(ApplyLogic(mirror[s].rows, op[s]))]
    /\ outcome' = [outcome EXCEPT ![s] = "WriteError"]
    /\ pc' = [pc EXCEPT ![s] = "rerun"]
    /\ UNCHANGED <<store, cache, op, used, pending, calls, limit>>

---------------------------------------------------------------------------
(* add_new_item_to_gsheet *)

AddOp(name, quantity, notes) ==
    [kind |-> "add", name |-> name, ev |-> 0, cur |-> 0, was |-> 0,
     qty |-> quantity, notes |-> notes]

CanAdd(s) ==
    /\ pc[s] = "idle"
    /\ calls < limit
    /\ Len(mirror[s].rows) < MaxRows

(* the row is appended to the mirror and conn.update succeeds; the cache is
   still as it was and no message is shown yet *)
AddOk(s, image, name, quantity, notes) ==
    /\ CanAdd(s)
    /\ mirror' = [mirror EXCEPT ![s] = Concat(mirror[s], NewRow(image, name, quantity, notes))]
    /\ store' = mirror'[s].rows
    /\ op' = [op EXCEPT ![s] = AddOp(name, quantity, notes)]
    /\ pc' = [pc EXCEPT ![s] = "clear"]
    /\ used' = { u \in used : u[1] # name }
    /\ pending' = [t \in Sessions |-> TRUE]
    /\ calls' = calls + 1
    /\ UNCHANGED limit
    /\ UNCHANGED <<cache, outcome>>

AddFail(s, image, name, quantity, notes) ==
    /\ CanAdd(s)
    /\ mirror' = [mirror EXCEPT ![s] = Concat(mirror[s], NewRow(image, name, quantity, notes))]
    /\ op' = [op EXCEPT ![s] = AddOp(name, quantity, notes)]
    /\ outcome' = [outcome EXCEPT ![s] = "AddError"]
    /\ pc' = [pc EXCEPT ![s] = "rerun"]
    /\ pending' = [pending EXCEPT ![s] = FALSE]
    /\ calls' = calls + 1
    /\ UNCHANGED limit
    /\ UNCHANGED <<store, cache, used>>

---------------------------------------------------------------------------
(* st.cache_data.clear() after a conn.update that succeeded; the call is then
   over with success (return True; after an add, st.success) *)
ClearCache(s) ==
    /\ pc[s] = "clear"
    /\ cache' = [valid |-> FALSE, frame |-> NoneFrame]
    /\ outcome' = [outcome EXCEPT ![s] = "ok"]
    /\ pc' = [pc EXCEPT ![s] = "rerun"]
    /\ UNCHANGED <<store, mirror, op, used, pending, calls, limit>>

---------------------------------------------------------------------------
(* st.rerun() after a handler: main() runs again with "inventory_df" already
   in st.session_state, so the mirror is shown as it is; the messages of the
   previous run are gone. *)
Rerun(s) ==
    /\ pc[s] = "rerun"
    /\ pc' = [pc EXCEPT ![s] = "idle"]
    /\ op' = [op EXCEPT ![s] = NoOp]
    /\ outcome' = [outcome EXCEPT ![s] = "none"]
    /\ pending' = [pending EXCEPT ![s] = FALSE]
    /\ UNCHANGED <<store, cache, mirror, used, calls, limit>>

---------------------------------------------------------------------------

Next ==
    \/ \E s \in Sessions : LoadCached(s)
    \/ \E s \in Sessions : LoadRead(s)
    \/ \E s \in Sessions : LoadReadFail(s)
    \/ ExpireCache
    \/ \E s \in Sessions, i \in 1..(MaxRows + 1), k \in Kinds, n \in EditNotes :
          VerifyReadFail(s, i, k, n)
    \/ \E s \in Sessions, i \in 1..(MaxRows + 1), k \in Kinds, n \in EditNotes :
          VerifyNotFound(s, i, k, n)
    \/ \E s \in Sessions, i \in 1..(MaxRows + 1), k \in Kinds, n \in EditNotes :
          VerifyBadVersion(s, i, k, n)
    \/ \E s \in Sessions, i \in 1..(MaxRows + 1), k \in Kinds, n \in EditNotes :
          VerifyConflict(s, i, k, n)
    \/ \E s \in Sessions, i \in 1..(MaxRows + 1), k \in Kinds, n \in EditNotes :
          VerifyPass(s, i, k, n)
    \/ \E s \in Sessions : WriteOk(s)
    \/ \E s \in Sessions : WriteFail(s)
    \/ \E s \in Sessions : ClearCache(s)
    \/ \E s \in Sessions : Rerun(s)
    \/ \E s \in Sessions, im \in Images, nm \in Names, q \in AddQuantities, n \in AddNotes :
          AddOk(s, im, nm, q, n)
    \/ \E s \in Sessions, im \in Images, nm \in Names, q \in AddQuantities, n \in AddNotes :
          AddFail(s, im, nm, q, n)

Spec == Init /\ [][Next]_vars

SpecLong == InitLong /\ [][Next]_vars

(* conn.update returns or raises and st.cache_data.clear() returns: a call
   that has passed its verification does not stay before its write or its
   cache clear forever *)
SpecLive ==
    /\ InitLive /\ [][Next]_vars
    /\ \A s \in Sessions : WF_vars(WriteOk(s) \/ WriteFail(s))
    /\ \A s \in Sessions : WF_vars(ClearCache(s))

---------------------------------------------------------------------------
(* Vocabulary of the properties *)

Mutations == {"qty", "notes", "del"}

Present(rows, name) == \E i \in DOMAIN rows : rows[i].Name = name

(* The version of the first row with the name, a blank cell read as 1 *)
RecordedVersion(rows, name) ==
    LET i == CHOOSE k \in DOMAIN rows :
                 /\ rows[k].Name = name
                 /\ \A j \in DOMAIN rows : j < k => rows[j].Name # name
    IN IF rows[i].Version = NaN THEN 1 ELSE rows[i].Version

(* Session s makes its verification read in this step *)
Verifies(s) ==
    /\ pc[s] = "idle"
    /\ pc'[s] \in {"write", "rerun"}
    /\ op'[s].kind \in Mutations

(* Session s's conn.update of a quantity update, notes update or delete
   succeeds in this step *)
Commits(s) ==
    /\ pc[s] = "write"
    /\ outcome'[s] = "ok"

(* Session s's conn.update of any of the four operations raises in this step *)
FailsWrite(s) ==
    \/ pc[s] = "write" /\ outcome'[s] = "WriteError"
    \/ pc[s] = "idle" /\ outcome'[s] = "AddError"

(* Session s's conn.update of an add succeeds in this step *)
Adds(s) ==
    /\ pc[s] = "idle"
    /\ op'[s].kind = "add"
    /\ pc'[s] = "clear"

---------------------------------------------------------------------------
(* C1: of the mutations of one record presented with one expectedVersion, at
   most one succeeds: no mutation succeeds with a (name, expectedVersion)
   with which a mutation of that record has succeeded before. *)
C1_AtMostOneWriterPerVersion ==
    [][\A s \in Sessions :
          Commits(s) => <<op[s].name, op[s].ev>> \notin used]_vars

(* C2: a verification read that finds the record at a version other than
   expectedVersion ends the call with the version-conflict outcome, without
   a store write and with the store unchanged. *)
C2_StaleVersionRejected ==
    [][\A s \in Sessions :
          ( /\ Verifies(s)
            /\ outcome'[s] # "ReadError"
            /\ Present(store, op'[s].name)
            /\ RecordedVersion(store, op'[s].name) # op'[s].ev )
          => /\ outcome'[s] = "Conflict"
             /\ pc'[s] = "rerun"
             /\ store' = store]_vars

C2_Witness ==
    \E s \in Sessions :
        /\ pc[s] = "rerun"
        /\ outcome[s] = "Conflict"
        /\ Present(store, op[s].name)
        /\ RecordedVersion(store, op[s].name) # op[s].ev

(* C3: the version of a record of the store never decreases: no successful
   quantity update, notes update or delete lowers the version of a record
   that is in the store before and after it. *)
C3_VersionNeverDecreases ==
    [][\A s \in Sessions, n \in Names :
          (Commits(s) /\ Present(store, n) /\ Present(store', n))
          => RecordedVersion(store', n) >= RecordedVersion(store, n)]_vars

(* C4: a successful quantity or notes update leaves the record in the store
   at the version read at verification plus 1, which is expectedVersion + 1;
   a successful delete was verified at expectedVersion as well. *)
C4_VersionIncrementedByOne ==
    [][\A s \in Sessions :
          Commits(s)
          => /\ op[s].cur = op[s].ev
             /\ op[s].kind \in {"qty", "notes"}
                => /\ Present(store', op[s].name)
                   /\ \A i \in DOMAIN store' :
                         store'[i].Name = op[s].name
                         => store'[i].Version = op[s].cur + 1]_vars

C4_Witness ==
    \E s \in Sessions :
        /\ pc[s] = "rerun"
        /\ outcome[s] = "ok"
        /\ op[s].kind \in {"qty", "notes"}
        /\ Present(store, op[s].name)
        /\ RecordedVersion(store, op[s].name) = op[s].ev + 1

(* C5: once a mutation of a record with expectedVersion v has succeeded, no
   later mutation of that record presented with v passes verification. *)
C5_StaleVersionNeverPasses ==
    [][\A s \in Sessions :
          (Verifies(s) /\ <<op'[s].name, op'[s].ev>> \in used)
          => pc'[s] # "write"]_vars

(* C6: a store write that fails leaves the session's mirror as it was. *)
C6_MirrorKeptOnWriteFailure ==
    [][\A s \in Sessions : FailsWrite(s) => mirror'[s] = mirror[s]]_vars

(* C7: the first display read a session makes after a successful mutation
   shows the contents of the store. *)
C7_DisplayReadIsFresh ==
    [][\A s \in Sessions :
          (pending[s] /\ ~pending'[s])
          => LET shown == IF pc[s] = "start" THEN mirror'[s] ELSE mirror[s]
             IN shown.none \/ shown.rows = FillVersion(store)]_vars

(* C8: after a successful delete the store holds no record with the name. *)
C8_DeletedRecordAbsent ==
    [][\A s \in Sessions :
          (Commits(s) /\ op[s].kind = "del")
          => ~Present(store', op[s].name)]_vars

C8_Witness ==
    \E s \in Sessions :
        /\ pc[s] = "rerun"
        /\ outcome[s] = "ok"
        /\ op[s].kind = "del"
        /\ ~Present(store, op[s].name)

(* C9: a verification read that does not find the record ends the call with
   the record-not-found outcome, without a store write and with the store
   unchanged. *)
C9_AbsentRecordNotFound ==
    [][\A s \in Sessions :
          ( /\ Verifies(s)
            /\ outcome'[s] # "ReadError"
            /\ ~Present(store, op'[s].name) )
          => /\ outcome'[s] = "NotFound"
             /\ pc'[s] = "rerun"
             /\ store' = store]_vars

C9_Witness ==
    \E s \in Sessions :
        /\ pc[s] = "rerun"
        /\ outcome[s] = "NotFound"
        /\ op[s].kind \in Mutations
        /\ ~Present(store, op[s].name)

(* C10: after a successful add the store's last row is the new record, with
   version 1. *)
C10_AddedAtVersionOne ==
    [][\A s \in Sessions :
          Adds(s)
          => /\ store' # <<>>
             /\ store'[Len(store')].Name = op'[s].name
             /\ store'[Len(store')].Version = 1]_vars

C10_Witness ==
    \E s \in Sessions :
        /\ pc[s] = "rerun"
        /\ outcome[s] = "ok"
        /\ op[s].kind = "add"
        /\ Len(store) >= 2
        /\ store[Len(store)].Name = op[s].name
        /\ store[Len(store)].Version = 1
        /\ RecordedVersion(store, op[s].name) > 1

(* C11: every quantity in the store is a non-negative integer; a Decrease of
   a record shown at quantity 0 writes 0. *)
C11_QuantityNonNegative ==
    \A i \in DOMAIN store : store[i].Quantity \in Nat

C11_Witness ==
    \E s \in Sessions :
        /\ pc[s] = "rerun"
        /\ outcome[s] = "ok"
        /\ op[s].kind = "qty"
        /\ op[s].was = 0
        /\ op[s].qty = 0
        /\ \E i \in DOMAIN store :
              store[i].Name = op[s].name /\ store[i].Quantity = 0

(* C12: when two sessions have each added a record with the same name and
   both calls reported success, the store holds two records with that
   name. *)
C12_ConcurrentAddsBothStored ==
    \A s, t \in Sessions : \A name \in Names :
        ( /\ s # t
          /\ pc[s] = "rerun" /\ pc[t] = "rerun"
          /\ op[s].kind = "add" /\ op[t].kind = "add"
          /\ op[s].name = name /\ op[t].name = name
          /\ outcome[s] = "ok" /\ outcome[t] = "ok"
          /\ ~mirror[s].none /\ ~mirror[t].none )
        => Len(RowsNamed(store, name)) >= 2

(* C13: a mutation presented with expectedVersion 1 for a record whose
   version cell is blank in the store is not rejected at verification: the
   blank counts as version 1 and the call goes on to its write (unless the
   read itself fails). *)
C13_BlankVersionIsOne ==
    [][\A s \in Sessions :
          ( /\ Verifies(s)
            /\ Present(store, op'[s].name)
            /\ RowsNamed(store, op'[s].name)[1].Version = NaN
            /\ op'[s].ev = 1 )
          => \/ pc'[s] = "write"
             \/ outcome'[s] = "ReadError"]_vars

(* C14: the version a verification compares with expectedVersion is the one
   the store holds for the record at the moment of that read, whatever the
   cache or the session's mirror hold: a call passes only when the store's
   version equals expectedVersion, and ends in a version conflict only when
   the store's version differs from it. *)
C14_VerifiesAgainstStore ==
    [][\A s \in Sessions :
          Verifies(s) =>
            /\ pc'[s] = "write" =>
                 /\ Present(store, op'[s].name)
                 /\ RowsNamed(store, op'[s].name)[1].Version = op'[s].cur
                 /\ op'[s].cur = op'[s].ev
            /\ outcome'[s] = "Conflict" =>
                 /\ Present(store, op'[s].name)
                 /\ RowsNamed(store, op'[s].name)[1].Version \notin {NaN, op'[s].ev}]_vars

C14_Witness ==
    \E s \in Sessions :
        /\ pc[s] = "rerun"
        /\ outcome[s] = "Conflict"
        /\ Present(mirror[s].rows, op[s].name)
        /\ RecordedVersion(mirror[s].rows, op[s].name) = op[s].ev
        /\ Present(store, op[s].name)
        /\ RecordedVersion(store, op[s].name) # op[s].ev

(* The rows of other records than the named one *)
OtherRows(rows, name) == SelectSeq(rows, LAMBDA r : r.Name # name)

(* C15: a successful quantity update, notes update, delete or add of one
   record leaves every other record of the store as it was (a blank version
   and version 1 counting as the same). *)
C15_OtherRecordsUnchanged ==
    [][\A s \in Sessions :
          (Commits(s) \/ (Adds(s) /\ ~mirror[s].none))
          => FillVersion(OtherRows(store', op'[s].name))
               = FillVersion(OtherRows(store, op'[s].name))]_vars

(* C16: a record that a successful delete has just removed from the store
   does not come back through a successful quantity update, notes update or
   delete of another record by any session. *)
C16_DeletedStaysDeleted ==
    [][\A s, t \in Sessions : \A name \in Names :
          ( /\ pc[t] = "rerun"
            /\ op[t].kind = "del"
            /\ op[t].name = name
            /\ outcome[t] = "ok"
            /\ ~Present(store, name)
            /\ Commits(s)
            /\ op[s].name # name )
          => ~Present(store', name)]_vars

(* C17: while only one session has been active, none of its quantity
   updates, notes updates or deletes of a record whose name is unique in the
   store and in its mirror, each issued with the version its mirror holds,
   is rejected with a version conflict. *)
C17_SoleWriterNeverConflicts ==
    [][\A s \in Sessions :
          ( /\ Verifies(s)
            /\ \A t \in Sessions \ {s} : pc[t] = "start"
            /\ Len(RowsNamed(store, op'[s].name)) = 1
            /\ Len(RowsNamed(mirror[s].rows, op'[s].name)) = 1 )
          => outcome'[s] # "Conflict"]_vars

(* The outcomes of a call that ends at its verification *)
Rejections == {"ReadError", "NotFound", "VersionError", "Conflict"}

(* C18: every quantity update, notes update or delete makes one verification
   read, which changes nothing and either ends the call with a rejection or
   lets it go on with expectedVersion found in the store; a call that went on
   makes one store write attempt and ends with success (after the cache is
   cleared, without another store access) or a write error; the
   outcome, once set, stays until the call is over; a finished call is
   discarded, not retried; the store changes only in the write of a call
   that passed its verification, or in an add; and a call that passed its
   verification does reach its outcome. *)
C18_OneReadOneWriteOneOutcome ==
    /\ [][\A s \in Sessions :
            /\ Verifies(s) =>
                 /\ pc[s] = "idle" /\ outcome[s] = "none"
                 /\ store' = store
                 /\ \/ pc'[s] = "rerun" /\ outcome'[s] \in Rejections
                    \/ /\ pc'[s] = "write" /\ outcome'[s] = "none"
                       /\ op'[s].cur = op'[s].ev
            /\ (pc[s] = "write" /\ pc'[s] # "write") =>
                 /\ \/ pc'[s] = "clear" /\ outcome'[s] = "ok"
                    \/ pc'[s] = "rerun" /\ outcome'[s] = "WriteError"
                 /\ op'[s] = op[s]
                 /\ op[s].cur = op[s].ev
                 /\ outcome'[s] = "WriteError" => store' = store
            /\ (pc[s] = "clear" /\ pc'[s] # "clear") =>
                 /\ pc'[s] = "rerun"
                 /\ op'[s] = op[s] /\ outcome'[s] = "ok"
                 /\ store' = store
            /\ (pc[s] = "rerun" /\ pc'[s] # "rerun") =>
                 /\ pc'[s] = "idle"
                 /\ op'[s] = NoOp /\ outcome'[s] = "none"
                 /\ store' = store
            /\ outcome[s] # "none" =>
                 \/ outcome'[s] = outcome[s]
                 \/ pc[s] = "rerun" /\ pc'[s] = "idle"]_vars
    /\ [][store' # store => \E s \in Sessions : Commits(s) \/ Adds(s)]_vars
    /\ \A s \in Sessions : (pc[s] = "write") ~> (pc[s] = "rerun")

C18_Witness ==
    \E s, t \in Sessions :
        /\ pc[s] = "rerun" /\ op[s].kind \in Mutations
        /\ outcome[s] = "ok" /\ op[s].cur = op[s].ev
        /\ pc[t] = "rerun" /\ op[t].kind \in Mutations
        /\ outcome[t] \in Rejections

====
